---- MODULE Spec2Model ----
(***************************************************************************)
(* A model of src/unused/sock.c (facil.io's user-land socket buffer):      *)
(* the descriptor table with its uuid/generation scheme, the packet pool,  *)
(* the per-fd packet queue, the three packet write strategies and the      *)
(* flush engine, driven through the public sock_* API by a single thread.  *)
(*                                                                         *)
(* Pointers are modelled as indices (packets are indices into              *)
(* packet_pool.mem, NULL is -1), function pointers as the names of the     *)
(* functions they point to.  Results of the rw-hooks and of pread are      *)
(* inputs, drawn from every value the callee may return.  A call through  *)
(* a NULL function pointer or a store through a NULL pointer is undefined  *)
(* behaviour: the model records it in `fault' and follows the program no   *)
(* further (nothing is assumed about what it does afterwards).  A spin on  *)
(* a lock that nobody will release is recorded in `fault' as well.         *)
(* malloc/realloc are assumed to succeed.  EWOULDBLOCK is the same errno   *)
(* value as EAGAIN on the supported platforms and is modelled as EAGAIN.   *)
(***************************************************************************)
EXTENDS Integers, Sequences, FiniteSets, TLC

\* ---------------------------------------------------------------- bounds
\* descriptors 1..MaxFd are handed to the API
MaxFd == 1
\* longest payload / file, in bytes
MaxLen == 3
\* number of payloads (sock_write2 / sock_buffer_checkout calls) in a run of
\* Spec, where a payload has any shape
MaxIds == 1
\* number of payloads in a run of SpecQueue, where payloads are memory
MaxQueued == 2
\* sock_open is called on an fd only while its counter is below MaxGen
MaxGen == 2
\* scaled-down stand-ins for the tunables of sock.h
BUFFER_PACKET_POOL == 3
BUFFER_PACKET_SIZE == 2
BUFFER_FILE_READ_SIZE == 2
\* number of clears SpecGen follows: enough for the uint8_t counter to wrap
GenClears == 258
\* SpecRace: the generations an fd goes through (open, close, reopen, close)
RaceGen == 4

\* ------------------------------------------------------------- constants
\* the NULL pointer
NULL == -1
\* uint8_t counter: values 0..255
CounterMod == 256

VARIABLES
  capacity,     \* sock_data_s.capacity
  fds,          \* sock_data_s.fds: index -> struct fd_data_s
  packet_pool,  \* packet_pool: next, init, mem
  errno,        \* the thread's errno
  fault,        \* "none", or the undefined behaviour / hang the program ran into
  pc,           \* position of the thread: idle, or inside sock_flush
  last,         \* the API call in progress or last returned, and its result
  hist          \* history: handles issued, bytes passed to hooks.write, disposals

vars == <<capacity, fds, packet_pool, errno, fault, pc, last, hist>>

Fds == 1..MaxFd
TableIdx == 0..(2 * MaxFd - 1)
Packets == 0..(BUFFER_PACKET_POOL - 1)
Ids == 1..MaxQueued

Min(a, b) == IF a < b THEN a ELSE b

\* ------------------------------------------------------------ data types
\* struct fd_data_s, zeroed (memset in clear_fd's reinitialize)
ZeroFd ==
  [counter |-> 0, lock |-> FALSE, open |-> FALSE, close |-> FALSE,
   err |-> FALSE, sent |-> 0, packet |-> NULL, rw_hooks |-> "NULL"]

\* the contents of packet->buffer.buf, seen through the struct that was last
\* written over it: raw bytes (inline), sock_packet_ext_data_s {buffer,
\* to_free, dealloc} or sock_packet_file_data_s {fd, offset, close}
ZeroBuf ==
  [bytes |-> <<>>, id |-> 0, to_free |-> "", dealloc |-> "NULL", offset |-> 0]

\* packet_s in static storage: all zero
ZeroPacket ==
  [write_func |-> "NULL", free_func |-> "NULL", next |-> NULL, len |-> 0,
   buf |-> ZeroBuf]

\* (struct packet_metadata_s){.free_func = sock_packet_free_none}
ClearedMetadata(p) ==
  [p EXCEPT !.write_func = "NULL", !.free_func = "sock_packet_free_none",
            !.next = NULL]

\* byte i of payload id (of the caller's buffer, or of the source file)
Byte(id, i) == <<id, i>>
Bytes(id, from, to) == [k \in 1..(to - from + 1) |-> Byte(id, from + k - 1)]

\* the program state the operators below transform
St ==
  [capacity |-> capacity, fds |-> fds, pool |-> packet_pool, errno |-> errno,
   fault |-> fault, hist |-> hist]

Commit(m) ==
  /\ capacity' = m.capacity
  /\ fds' = m.fds
  /\ packet_pool' = m.pool
  /\ errno' = m.errno
  /\ fault' = m.fault
  /\ hist' = m.hist

Ok(m) == m.fault = "none"

\* ---------------------------------------------------------- uuid / table
sock_uuid2fd(uuid) == uuid \div 256

fd2uuid(m, fd) == fd * 256 + m.fds[fd].counter

\* validate_uuid without the comparison of the generation byte
validate_uuid_capacity_only(m, uuid) ==
  IF m.capacity <= sock_uuid2fd(uuid) THEN -1 ELSE 0

validate_uuid(m, uuid) ==
  LET fd == sock_uuid2fd(uuid) IN
  IF m.capacity <= fd \/ m.fds[fd].counter /= uuid % CounterMod THEN -1 ELSE 0

lock_fd(m, fd) ==
  IF ~Ok(m) THEN m
  ELSE IF m.fds[fd].lock THEN [m EXCEPT !.fault = "spin"]
  ELSE [m EXCEPT !.fds[fd].lock = TRUE]

unlock_fd(m, fd) ==
  IF ~Ok(m) THEN m ELSE [m EXCEPT !.fds[fd].lock = FALSE]

\* function `by' is about to assign to a field of record fd (sent, packet,
\* rw_hooks, the flag bits): the history keeps the functions that did so
\* while the lock of that record was not held
Written(m, fd, by) ==
  IF m.fds[fd].lock THEN m ELSE [m EXCEPT !.hist.unlocked = @ \cup {by}]

\* ----------------------------------------------------------- packet pool
\* ext->dealloc(ext->to_free)
sock_free_buffer_ext(m, p) ==
  LET b == m.pool.mem[p].buf IN
  IF b.dealloc = "NULL" THEN [m EXCEPT !.fault = "null_call"]
  ELSE [m EXCEPT !.hist.disposed[b.id] = Append(@, <<b.dealloc, b.to_free>>)]

\* ext->close((void *)ext->fd)
sock_close_from_fd(m, p) ==
  LET b == m.pool.mem[p].buf IN
  IF b.dealloc = "NULL" THEN [m EXCEPT !.fault = "null_call"]
  ELSE [m EXCEPT !.hist.disposed[b.id] = Append(@, <<b.dealloc, "fd">>)]

\* packet->metadata.free_func(packet)
CallFreeFunc(m, p) ==
  LET f == m.pool.mem[p].free_func IN
  CASE f = "NULL" -> [m EXCEPT !.fault = "null_call"]
    [] f = "sock_packet_free_none" -> m
    [] f = "sock_free_buffer_ext" -> sock_free_buffer_ext(m, p)
    [] f = "sock_close_from_fd" -> sock_close_from_fd(m, p)

sock_packet_clear(m, p) ==
  IF ~Ok(m) THEN m
  ELSE LET m1 == CallFreeFunc(m, p) IN
       IF ~Ok(m1) THEN m1
       ELSE [m1 EXCEPT !.pool.mem[p] = [ClearedMetadata(@) EXCEPT !.len = 0]]

\* every packet lies inside packet_pool.mem: the free() branch is never taken
sock_packet_free(m, p) ==
  LET m1 == sock_packet_clear(m, p) IN
  IF ~Ok(m1) THEN m1
  ELSE [m1 EXCEPT !.pool.mem[p].next = m1.pool.next, !.pool.next = p]

\* the init: branch: every entry gets free_func, entries 1..N-2 are chained
\* to their successors; packet_pool.next is not assigned
PoolInit(pool) ==
  [pool EXCEPT
     !.init = TRUE,
     !.mem = [i \in Packets |->
                [pool.mem[i] EXCEPT
                   !.free_func = "sock_packet_free_none",
                   !.next = IF 1 <= i /\ i + 1 < BUFFER_PACKET_POOL
                            THEN i + 1 ELSE @]]]

\* returns [m, packet]
sock_packet_try_grab(m) ==
  LET packet == m.pool.next IN
  IF ~Ok(m) THEN [m |-> m, packet |-> NULL]
  ELSE IF packet /= NULL
  THEN [m |-> [m EXCEPT !.pool.next = m.pool.mem[packet].next,
                        !.pool.mem[packet] =
                           [ClearedMetadata(@) EXCEPT !.len = 0]],
        packet |-> packet]
  ELSE IF ~m.pool.init
  THEN [m |-> [m EXCEPT !.pool = [PoolInit(m.pool) EXCEPT
                                    !.mem[0] = [ClearedMetadata(@) EXCEPT
                                                  !.len = 0]]],
        packet |-> 0]
  \* packet == NULL and the pool is initialised: packet->metadata = ...
  ELSE [m |-> [m EXCEPT !.fault = "null_deref"], packet |-> NULL]

\* sock_packet_try_grab either returns a packet or stores through NULL, so
\* the flush_all-and-retry loop is never entered
sock_packet_grab(m) == sock_packet_try_grab(m)

sock_packet_rotate_unsafe(m, fd) ==
  LET packet == m.fds[fd].packet
      m1 == [Written(m, fd, "sock_packet_rotate_unsafe") EXCEPT
                      !.fds[fd].packet = m.pool.mem[packet].next,
                      !.fds[fd].sent = 0,
                      !.hist.rotated = @ \cup {m.pool.mem[packet].buf.id}]
  IN sock_packet_free(m1, packet)

\* ------------------------------------------------------------- clear_fd
\* reactor_on_close(uuid): the weak default does nothing; the history keeps
\* the uuids it was called with.  No function of sock.c calls it
reactor_on_close(m, uuid) ==
  IF ~Ok(m) THEN m ELSE [m EXCEPT !.hist.reactor = Append(@, uuid)]

\* the while loop of clear_fd: free the detached list
RECURSIVE FreeList(_, _)
FreeList(m, p) ==
  IF ~Ok(m) \/ p = NULL THEN m
  ELSE LET nxt == m.pool.mem[p].next IN FreeList(sock_packet_free(m, p), nxt)

\* old_data.rw_hooks->on_clear(uuid, rw_hooks): no effect on the program state
on_clear(m, uuid, hooks) ==
  IF ~Ok(m) THEN m ELSE [m EXCEPT !.hist.on_clear = [uuid |-> uuid, hooks |-> hooks]]

\* realloc to fd << 1 records, the new ones zeroed
Reinitialize(m, fd) ==
  IF m.capacity <= fd THEN [m EXCEPT !.capacity = 2 * fd] ELSE m

clear_fd(m, fd, is_open) ==
  LET m0 == lock_fd(Reinitialize(m, fd), fd)
      old_data == m.fds[fd]
      m1 == [Written(m0, fd, "clear_fd") EXCEPT
               !.fds[fd] = [ZeroFd EXCEPT
                              !.open = is_open,
                              !.lock = m0.fds[fd].lock,
                              !.rw_hooks = "sock_default_hooks",
                              !.counter = (old_data.counter + 1) % CounterMod],
               !.hist.clears[fd] = IF m.hist.held[fd] = NULL THEN @ ELSE @ + 1,
               !.hist.closed = IF old_data.open
                               THEN fd * 256 + old_data.counter ELSE @]
      m2 == FreeList(unlock_fd(m1, fd), old_data.packet)
  IN IF ~Ok(m0) THEN m0
     ELSE IF ~Ok(m2) \/ old_data.rw_hooks = "NULL" THEN m2
     ELSE on_clear(m2, fd * 256 + old_data.counter, old_data.rw_hooks)


\* ----------------------------------------------------------- rw-hooks
\* errno values a hook or pread may fail with (EIO stands for any errno that
\* the code does not treat as transient)
HookErrnos == {"EINTR", "EAGAIN", "ENOTCONN", "EIO"}

Result(r, e) == [r |-> r, e |-> e]

\* hooks.write / hooks.read asked for n bytes
IoResults(n) ==
  {Result(k, "0") : k \in 0..n} \cup {Result(-1, e) : e \in HookErrnos}

\* hooks.flush: sock_default_hooks_flush returns 0
FlushResults(hooks) ==
  IF hooks = "sock_default_hooks" THEN {Result(0, "0")}
  ELSE {Result(1, "0"), Result(0, "0")} \cup {Result(-1, e) : e \in HookErrnos}

\* rw_hooks->write(arg, data, Len(data)) returning res, while fd is flushed
HookWrite(m, fd, arg, data, res) ==
  IF res.r < 0 THEN [m EXCEPT !.errno = res.e]
  ELSE [m EXCEPT !.hist.wire =
          @ \o [k \in 1..res.r |-> [fd |-> fd, arg |-> arg, b |-> data[k]]]]

\* ------------------------------------------------------ write strategies
\* a memory strategy that offers the buffer from its first byte on every call
\* instead of from buffer + sent
WriteMemoryFromStart(m, fd, packet, res) ==
  LET pk == m.pool.mem[packet]
      m1 == HookWrite(m, fd, fd2uuid(m, fd), SubSeq(pk.buf.bytes, 1, pk.len),
                      res)
      m2 == [m1 EXCEPT !.fds[fd].sent = @ + res.r]
  IN IF res.r > 0
     THEN [m |-> IF m2.fds[fd].sent = pk.len
                 THEN sock_packet_rotate_unsafe(m2, fd) ELSE m2,
           ret |-> res.r]
     ELSE [m |-> m1, ret |-> res.r]

\* a memory strategy that advances the sent cursor by twice what the hook
\* accepted
WriteMemorySentTwice(m, fd, packet, res) ==
  LET pk == m.pool.mem[packet]
      sent == m.fds[fd].sent
      m1 == HookWrite(m, fd, fd2uuid(m, fd),
                      SubSeq(pk.buf.bytes, sent + 1, pk.len), res)
      m2 == [m1 EXCEPT !.fds[fd].sent = @ + 2 * res.r]
  IN IF res.r > 0
     THEN [m |-> IF m2.fds[fd].sent = pk.len
                 THEN sock_packet_rotate_unsafe(m2, fd) ELSE m2,
           ret |-> res.r]
     ELSE [m |-> m1, ret |-> res.r]

\* each returns [m, ret]
WriteMemory(m, fd, packet, res) ==
  LET pk == m.pool.mem[packet]
      sent == m.fds[fd].sent
      m1 == HookWrite(m, fd, fd2uuid(m, fd),
                      SubSeq(pk.buf.bytes, sent + 1, pk.len), res)
      m2 == [Written(m1, fd, "sock_write_buffer") EXCEPT
               !.fds[fd].sent = @ + res.r]
  IN IF res.r > 0
     THEN [m |-> IF m2.fds[fd].sent = pk.len
                 THEN sock_packet_rotate_unsafe(m2, fd) ELSE m2,
           ret |-> res.r]
     ELSE [m |-> m1, ret |-> res.r]

sock_write_buffer(m, fd, packet, res) == WriteMemory(m, fd, packet, res)

sock_write_buffer_ext(m, fd, packet, res) ==
  LET w == WriteMemory(m, fd, packet, res) IN
  IF res.r > 0 THEN w
  ELSE IF res.r < 0 /\ w.m.errno \in {"EAGAIN", "EINTR", "ENOTCONN"}
  THEN [m |-> w.m, ret |-> 0]
  ELSE [m |-> w.m, ret |-> -1]

\* a pread that finds n bytes at any position, beyond the end of the file too
PreadPastEnd(size, n, pos) == n

\* pread(ext->fd, ext->buffer, n, pos) on a file of size bytes: the count read
Pread(size, n, pos) ==
  IF pos >= size \/ pos < 0 THEN 0 ELSE Min(n, size - pos)

\* sock_write_from_fd from the top of its do-loop, entered with `count';
\* pe is pread's errno ("0": it succeeds), res the result of hooks.write.
\* Returns [m, ret, again, count]: again = the loop goes round once more
sock_write_from_fd(m, fd, packet, count, pe, res) ==
  LET m1 == [Written(m, fd, "sock_write_from_fd") EXCEPT
                      !.fds[fd].sent = @ + count,
                      !.pool.mem[packet].len = @ - count]
      pk == m1.pool.mem[packet]
      sent == m1.fds[fd].sent
      n == Min(pk.len, BUFFER_FILE_READ_SIZE)
      got == Pread(m.hist.fsize[pk.buf.id], n, pk.buf.offset + sent)
      data == Bytes(pk.buf.id, pk.buf.offset + sent + 1,
                    pk.buf.offset + sent + got)
      m2 == HookWrite(m1, fd, fd, data, res)
      m3 == [Written(m2, fd, "sock_write_from_fd") EXCEPT
                       !.fds[fd].sent = @ + res.r,
                       !.pool.mem[packet].len = @ - res.r]
  IN IF pe /= "0"
     THEN IF pe \in {"EAGAIN", "EINTR"}
          THEN [m |-> [m1 EXCEPT !.errno = pe], ret |-> 0, again |-> TRUE,
                count |-> 0]
          ELSE [m |-> [m1 EXCEPT !.errno = pe], ret |-> -1, again |-> FALSE,
                count |-> 0]
     ELSE IF got = 0
     THEN [m |-> sock_packet_rotate_unsafe(m1, fd), ret |-> 1,
           again |-> FALSE, count |-> 0]
     ELSE IF res.r = BUFFER_FILE_READ_SIZE /\ pk.len /= 0
     THEN [m |-> m2, ret |-> 0, again |-> TRUE, count |-> res.r]
     ELSE IF res.r < 0
     THEN [m |-> m2, ret |-> -1, again |-> FALSE, count |-> 0]
     ELSE IF m3.pool.mem[packet].len = 0
     THEN [m |-> sock_packet_rotate_unsafe(m3, fd), ret |-> 1,
           again |-> FALSE, count |-> 0]
     ELSE [m |-> m3, ret |-> res.r, again |-> FALSE, count |-> 0]


\* ------------------------------------------------- calls and their results
Idle == [at |-> "idle", uuid |-> 0, caller |-> "", count |-> 0]

\* no hook was called yet
NoHook == [fn |-> "", r |-> 0, e |-> "0"]

\* the result res of a call of hook fn (read, write, flush) or of pread
Hooked(l, fn, res) == [l EXCEPT !.hook = [fn |-> fn, r |-> res.r, e |-> res.e]]

\* the record of an API call: `ok' = the handle validated and its record was
\* open when the call was made; `hook' = the latest hook result in the call
Call(m, op, uuid, id) ==
  [op |-> op, uuid |-> uuid, id |-> id, hook |-> NoHook, returned |-> FALSE,
   ret |-> 0,
   ok |-> validate_uuid(m, uuid) = 0 /\ m.fds[sock_uuid2fd(uuid)].open]

Return(l, r) == [l EXCEPT !.returned = TRUE, !.ret = r]

\* the call l ends in state m with result r, unless the program faulted
Finish(m, l, r) ==
  /\ Commit(m)
  /\ pc' = Idle
  /\ last' = IF Ok(m) THEN Return(l, r) ELSE l

\* handles a caller may pass: handles the API returned, and fd << 8
HandleInputs ==
  ({hist.held[f] : f \in Fds} \cup {hist.cur[f] : f \in Fds}
     \cup {f * 256 : f \in Fds}) \ {NULL}

\* ------------------------------------------------------------ sock_flush
\* sock_force_close: shutdown and close act on the OS descriptor only
sock_force_close(m, uuid) ==
  IF ~Ok(m) \/ validate_uuid(m, uuid) /= 0 THEN m
  ELSE clear_fd(m, sock_uuid2fd(uuid), FALSE)

\* what sock_flush returns to: sock_write2_fn returns 0 and sock_close
\* nothing, whatever sock_flush returned; sock_flush_strong calls sock_flush
\* again while it returned 0 (while (sock_flush(uuid) == 0);), and that call
\* returns -1 at once or takes the lock
FlushReturn(m, l, caller, r) ==
  LET fd == sock_uuid2fd(l.uuid) IN
  IF caller = "sock_flush_strong" /\ r = 0 /\ Ok(m)
     /\ validate_uuid(m, l.uuid) = 0 /\ m.fds[fd].open
     /\ m.fds[fd].packet /= NULL
  THEN LET m1 == lock_fd(m, fd) IN
       IF ~Ok(m1) THEN Finish(m1, l, 0)
       ELSE Commit(m1) /\ last' = l
            /\ pc' = [at |-> "flush", uuid |-> l.uuid, caller |-> caller,
                      count |-> 0]
  ELSE Finish(m, l, IF caller = "sock_flush" THEN r ELSE 0)

\* finish: unlock_fd(fd); return 0
FlushFinish(m, l, uuid, caller) ==
  FlushReturn(unlock_fd(m, sock_uuid2fd(uuid)), l, caller, 0)

\* error: unlock_fd(fd); sock_force_close(uuid); return -1
FlushError(m, l, uuid, caller) ==
  FlushReturn(sock_force_close(unlock_fd(m, sock_uuid2fd(uuid)), uuid),
              l, caller, -1)

\* a sock_flush that takes EAGAIN / EWOULDBLOCK for a fatal error
FlushOnErrorAgainFatal(m, l, uuid, caller) ==
  IF m.errno = "EINTR"
  THEN Commit(m) /\ last' = l
       /\ pc' = [at |-> "flush", uuid |-> uuid, caller |-> caller, count |-> 0]
  ELSE IF m.errno = "ENOTCONN"
  THEN FlushFinish(m, l, uuid, caller)
  ELSE FlushError(m, l, uuid, caller)

\* if (ret == -1) { EINTR: retry; EAGAIN, EWOULDBLOCK, ENOTCONN: finish; error }
FlushOnError(m, l, uuid, caller) ==
  IF m.errno = "EINTR"
  THEN Commit(m) /\ last' = l
       /\ pc' = [at |-> "flush", uuid |-> uuid, caller |-> caller, count |-> 0]
  ELSE IF m.errno \in {"EAGAIN", "ENOTCONN"}
  THEN FlushFinish(m, l, uuid, caller)
  ELSE FlushError(m, l, uuid, caller)

\* the head of sock_flush, called for `caller' whose call record is l
FlushCall(m, l, uuid, caller) ==
  LET fd == sock_uuid2fd(uuid) IN
  IF ~Ok(m) THEN Finish(m, l, 0)
  ELSE IF validate_uuid(m, uuid) /= 0 \/ ~m.fds[fd].open
          \/ m.fds[fd].packet = NULL
  THEN FlushReturn(m, l, caller, -1)
  ELSE LET m1 == lock_fd(m, fd) IN
       IF ~Ok(m1) THEN Finish(m1, l, 0)
       ELSE Commit(m1) /\ last' = l
            /\ pc' = [at |-> "flush", uuid |-> uuid, caller |-> caller,
                      count |-> 0]

\* while ((ret = rw_hooks->flush(fd)) > 0);  one call of the hook
FlushHooks ==
  /\ fault = "none" /\ pc.at = "flush"
  /\ LET fd == sock_uuid2fd(pc.uuid) IN
     \E res \in FlushResults(fds[fd].rw_hooks) :
       IF res.r > 0
       THEN UNCHANGED <<capacity, fds, packet_pool, errno, fault, pc, hist>>
            /\ last' = Hooked(last, "flush", res)
       ELSE IF res.r = 0
       THEN UNCHANGED <<capacity, fds, packet_pool, errno, fault, hist>>
            /\ last' = Hooked(last, "flush", res)
            /\ pc' = [pc EXCEPT !.at = "write"]
       ELSE FlushOnError([St EXCEPT !.errno = res.e],
                         Hooked(last, "flush", res), pc.uuid, pc.caller)

\* the value write_func returned reaches the while loop of sock_flush
FlushAfterWrite(m, l, ret) ==
  IF ~Ok(m) THEN Finish(m, l, 0)
  ELSE IF ret > 0
  THEN Commit(m) /\ last' = l /\ pc' = [pc EXCEPT !.at = "write", !.count = 0]
  ELSE IF ret = -1 THEN FlushOnError(m, l, pc.uuid, pc.caller)
  ELSE FlushFinish(m, l, pc.uuid, pc.caller)

\* while (packet && (ret = packet->metadata.write_func(fd, packet)) > 0);
\* one call of a memory write strategy, or the loop's end on an empty queue
FlushWrite ==
  /\ fault = "none" /\ pc.at = "write"
  /\ LET fd == sock_uuid2fd(pc.uuid)
         packet == fds[fd].packet
         wf == IF packet = NULL THEN "" ELSE packet_pool.mem[packet].write_func
     IN \/ /\ packet = NULL
           /\ FlushFinish(St, last, pc.uuid, pc.caller)
        \/ /\ wf = "sock_write_buffer"
           /\ \E res \in IoResults(packet_pool.mem[packet].len - fds[fd].sent) :
                LET w == sock_write_buffer(St, fd, packet, res)
                IN FlushAfterWrite(w.m, Hooked(last, "write", res), w.ret)
        \/ /\ wf = "sock_write_buffer_ext"
           /\ \E res \in IoResults(packet_pool.mem[packet].len - fds[fd].sent) :
                LET w == sock_write_buffer_ext(St, fd, packet, res)
                IN FlushAfterWrite(w.m, Hooked(last, "write", res), w.ret)

\* one round of the do-loop of sock_write_from_fd: a pread and, when it read
\* something, a hooks.write
FlushWriteFromFd ==
  /\ fault = "none"
  /\ pc.at \in {"write", "fd_loop"}
  /\ LET fd == sock_uuid2fd(pc.uuid)
         packet == fds[fd].packet
     IN /\ packet /= NULL
        /\ packet_pool.mem[packet].write_func = "sock_write_from_fd"
        /\ LET pk == packet_pool.mem[packet]
               got == Pread(hist.fsize[pk.buf.id],
                            Min(pk.len - pc.count, BUFFER_FILE_READ_SIZE),
                            pk.buf.offset + fds[fd].sent + pc.count)
           IN \E pe \in {"0", "EINTR", "EAGAIN", "EIO"} :
              \E res \in IF pe = "0" /\ got > 0 THEN IoResults(got)
                         ELSE {Result(0, "0")} :
                LET w == sock_write_from_fd(St, fd, packet, pc.count, pe, res)
                    l == IF pe /= "0"
                         THEN Hooked(last, "pread", Result(-1, pe))
                         ELSE IF got = 0
                         THEN Hooked(last, "pread", Result(0, "0"))
                         ELSE Hooked(last, "write", res)
                IN IF w.again
                   THEN Commit(w.m) /\ last' = l
                        /\ pc' = [pc EXCEPT !.at = "fd_loop", !.count = w.count]
                   ELSE FlushAfterWrite(w.m, l, w.ret)


\* ------------------------------------------------------------------ API
\* sock_open (and sock_listen / sock_accept / sock_connect, which end in the
\* same clear_fd(fd, 1); return fd2uuid(fd)).  `track': the caller keeps the
\* handle it held before instead of the new one
sock_open(m, fd, track) ==
  LET m1 == clear_fd(m, fd, TRUE)
      uuid == fd2uuid(m1, fd)
  IN IF ~Ok(m1) THEN m1
     ELSE [m1 EXCEPT !.hist.cur[fd] = uuid,
                     !.hist.held[fd] = IF track THEN uuid ELSE @,
                     !.hist.clears[fd] = IF track THEN 0 ELSE @]

\* gens, GenClears: how long the model goes on opening an fd;  retrack: the
\* caller replaces the handle it holds by the new one (else it goes on using
\* the first handle it was given for the fd)
SockOpen(gens, retrack) ==
  /\ fault = "none" /\ pc.at = "idle"
  /\ \E fd \in Fds :
       /\ fds[fd].counter < gens
       /\ hist.clears[fd] < GenClears
       /\ LET m == sock_open(St, fd, retrack \/ hist.held[fd] = NULL)
          IN Finish(m, [Call(St, "sock_open", fd * 256, 0) EXCEPT !.ok = TRUE],
                    fd2uuid(m, fd))

SockForceClose ==
  /\ fault = "none" /\ pc.at = "idle"
  /\ \E uuid \in HandleInputs :
       Finish(sock_force_close(St, uuid),
              Call(St, "sock_force_close", uuid, 0), 0)

\* sock_isvalid and sock_has_pending
SockIsValid ==
  /\ fault = "none" /\ pc.at = "idle"
  /\ \E uuid \in HandleInputs :
       Finish(St, Call(St, "sock_isvalid", uuid, 0),
              IF validate_uuid(St, uuid) = 0 /\ fds[sock_uuid2fd(uuid)].open
              THEN 1 ELSE 0)

SockHasPending ==
  /\ fault = "none" /\ pc.at = "idle"
  /\ \E uuid \in HandleInputs :
       Finish(St, Call(St, "sock_has_pending", uuid, 0),
              IF validate_uuid(St, uuid) = 0 /\ fds[sock_uuid2fd(uuid)].open
                 /\ fds[sock_uuid2fd(uuid)].packet /= NULL
              THEN 1 ELSE 0)

\* sock_read; res is what rw_hooks->read returned
sock_read(m, uuid, res) ==
  LET fd == sock_uuid2fd(uuid)
      m1 == lock_fd(m, fd)
      m2 == unlock_fd(IF res.r < 0 THEN [m1 EXCEPT !.errno = res.e] ELSE m1, fd)
      old_errno == m2.errno
      m3 == sock_force_close(m2, uuid)
  IN IF validate_uuid(m, uuid) /= 0 \/ ~m.fds[fd].open
     THEN [m |-> [m EXCEPT !.errno = "EBADF"], ret |-> -1]
     ELSE IF ~Ok(m1) THEN [m |-> m1, ret |-> 0]
     ELSE IF ~m1.fds[fd].open
     THEN [m |-> [unlock_fd(m1, fd) EXCEPT !.errno = "EBADF"], ret |-> -1]
     ELSE IF res.r > 0 THEN [m |-> m2, ret |-> res.r]
     ELSE IF res.r < 0 /\ m2.errno \in {"EAGAIN", "EINTR", "ENOTCONN"}
     THEN [m |-> m2, ret |-> 0]
     ELSE [m |-> IF Ok(m3)
                 THEN [m3 EXCEPT !.errno = IF res.r /= 0 THEN old_errno
                                           ELSE "ECONNRESET"]
                 ELSE m3,
           ret |-> -1]

SockRead ==
  /\ fault = "none" /\ pc.at = "idle"
  /\ \E uuid \in HandleInputs, res \in IoResults(MaxLen) :
       LET w == sock_read(St, uuid, res)
       IN Finish(w.m,
                 IF validate_uuid(St, uuid) = 0 /\ fds[sock_uuid2fd(uuid)].open
                 THEN Hooked(Call(St, "sock_read", uuid, 0), "read", res)
                 ELSE Call(St, "sock_read", uuid, 0),
                 w.ret)

SockFlush ==
  /\ fault = "none" /\ pc.at = "idle"
  /\ \E uuid \in HandleInputs :
       FlushCall(St, Call(St, "sock_flush", uuid, 0), uuid, "sock_flush")

\* sock_flush_strong: its first call of sock_flush
SockFlushStrong ==
  /\ fault = "none" /\ pc.at = "idle"
  /\ \E uuid \in HandleInputs :
       FlushCall(St, Call(St, "sock_flush_strong", uuid, 0), uuid,
                 "sock_flush_strong")

\* sock_close: the close flag is set without taking the lock
SockClose ==
  /\ fault = "none" /\ pc.at = "idle"
  /\ \E uuid \in HandleInputs :
       LET fd == sock_uuid2fd(uuid)
           l == Call(St, "sock_close", uuid, 0)
       IN IF validate_uuid(St, uuid) /= 0 \/ ~fds[fd].open
          THEN Finish(St, l, 0)
          ELSE FlushCall([Written(St, fd, "sock_close") EXCEPT
                            !.fds[fd].close = TRUE], l, uuid, "sock_close")

\* sock_rw_hook_set(uuid, rw_hooks): the hooks' NULL members get the
\* defaults; uuid is overwritten by the fd before the lock is taken, so the
\* lock taken is that of record sock_uuid2fd(fd) and the one released that
\* of record fd
sock_rw_hook_set(m, uuid) ==
  LET fd == sock_uuid2fd(uuid)
      m1 == lock_fd(m, sock_uuid2fd(fd))
  IN IF validate_uuid(m, uuid) /= 0 \/ ~m.fds[fd].open
     THEN [m |-> m, ret |-> -1]
     ELSE IF ~Ok(m1) THEN [m |-> m1, ret |-> 0]
     ELSE [m |-> unlock_fd([Written(m1, fd, "sock_rw_hook_set") EXCEPT
                              !.fds[fd].rw_hooks = "custom"], fd),
           ret |-> 0]

SockRwHookSet ==
  /\ fault = "none" /\ pc.at = "idle"
  /\ \E uuid \in HandleInputs :
       LET w == sock_rw_hook_set(St, uuid)
       IN Finish(w.m, Call(St, "sock_rw_hook_set", uuid, 0), w.ret)


\* --------------------------------------------------------- sock_write2_fn
RECURSIVE LastPacket(_, _)
LastPacket(mem, p) ==
  IF mem[p].next = NULL THEN p ELSE LastPacket(mem, mem[p].next)

\* the packets of fd's queue, head first
RECURSIVE ListFrom(_, _)
ListFrom(mem, p) ==
  IF p = NULL THEN <<>> ELSE <<p>> \o ListFrom(mem, mem[p].next)

Queue(m, fd) == ListFrom(m.pool.mem, m.fds[fd].packet)

\* while (*pos) pos = &(*pos)->metadata.next;  *pos = packet;
LinkTail(m, fd, packet) ==
  IF m.fds[fd].packet = NULL
  THEN [Written(m, fd, "enqueue") EXCEPT !.fds[fd].packet = packet]
  ELSE [m EXCEPT !.pool.mem[LastPacket(m.pool.mem, m.fds[fd].packet)].next =
                    packet]

\* if (*pos && sent) pos = &(*pos)->metadata.next;
\* packet->metadata.next = *pos;  *pos = packet;
LinkUrgent(m, fd, packet) ==
  LET head == m.fds[fd].packet IN
  IF head /= NULL /\ m.fds[fd].sent /= 0
  THEN [m EXCEPT !.pool.mem[packet].next = m.pool.mem[head].next,
                 !.pool.mem[head].next = packet]
  ELSE [Written(m, fd, "enqueue") EXCEPT
          !.pool.mem[packet].next = head, !.fds[fd].packet = packet]

\* error: sock_packet_free(packet); errno = EBADF; return -1
EnqueueError(m, packet) ==
  [m |-> [sock_packet_free(m, packet) EXCEPT !.errno = "EBADF"],
   ret |-> -1, flush |-> FALSE]

\* lock_fd(fd); if (!open) error; link the packet; unlock_fd(fd): what
\* sock_write2_fn does once the handle has passed its last validation
LockAndLink(m, o, packet) ==
  LET fd == sock_uuid2fd(o.uuid)
      m1 == lock_fd(m, fd)
      m2 == IF o.urgent = 0 THEN LinkTail(m1, fd, packet)
            ELSE LinkUrgent(m1, fd, packet)
  IN IF ~Ok(m1) THEN [m |-> m1, ret |-> 0, flush |-> FALSE]
     ELSE IF ~m1.fds[fd].open THEN EnqueueError(unlock_fd(m1, fd), packet)
     ELSE [m |-> [unlock_fd(m2, fd) EXCEPT !.hist.calls[o.id].linked = TRUE],
           ret |-> 0, flush |-> TRUE]

\* place_packet_in_queue: returns [m, ret, flush]
PlacePacket(m, o, packet) ==
  IF validate_uuid(m, o.uuid) /= 0 THEN EnqueueError(m, packet)
  ELSE LockAndLink(m, o, packet)

\* the rejection at the head of sock_write2_fn: dispose of the payload.
\* With move = 1 and no dealloc the payload is passed to free(), also when it
\* is a file descriptor: free() of a pointer malloc never returned is
\* undefined
RejectWrite(m, o) ==
  LET m1 == [m EXCEPT !.errno = IF o.offset < 0 THEN "ERANGE" ELSE "EBADF"]
  IN IF o.move = 0 /\ o.is_fd = 0 THEN m1
     ELSE IF o.move = 1 /\ o.is_fd = 1 /\ o.dealloc = "NULL"
     THEN [m EXCEPT !.fault = "invalid_free",
                    !.hist.disposed[o.id] = Append(@, <<"free", "fd">>)]
     ELSE IF o.move = 1
     THEN [m1 EXCEPT !.hist.disposed[o.id] =
             Append(@, <<IF o.dealloc /= "NULL" THEN o.dealloc ELSE "free",
                         IF o.is_fd = 1 THEN "fd" ELSE "buf">>)]
     ELSE [m1 EXCEPT !.hist.disposed[o.id] =
             Append(@, <<IF o.dealloc /= "NULL" THEN o.dealloc
                         ELSE "sock_mock_close_fd", "fd">>)]

\* the packet filled in from the options
FillPacket(pk, o) ==
  LET data == Bytes(o.id, o.offset + 1, o.offset + o.length) IN
  IF o.is_fd = 0
  THEN IF o.move = 0 /\ o.length <= BUFFER_PACKET_SIZE
       THEN [write_func |-> "sock_write_buffer",
             free_func |-> "sock_packet_free_none", next |-> NULL,
             len |-> o.length,
             buf |-> [ZeroBuf EXCEPT !.bytes = data, !.id = o.id]]
       ELSE [write_func |-> "sock_write_buffer_ext",
             free_func |-> "sock_free_buffer_ext", next |-> NULL,
             len |-> o.length,
             buf |-> [bytes |-> data, id |-> o.id, offset |-> 0,
                      to_free |-> IF o.move = 0 THEN "copy" ELSE "buf",
                      dealloc |-> IF o.dealloc /= "NULL" THEN o.dealloc
                                  ELSE "free"]]
  ELSE [write_func |-> "sock_write_from_fd",
        free_func |-> IF o.move = 1 THEN "sock_close_from_fd"
                      ELSE "sock_packet_free_none",
        next |-> NULL, len |-> o.length,
        buf |-> [bytes |-> <<>>, id |-> o.id, offset |-> o.offset,
                 to_free |-> "fd",
                 dealloc |-> IF o.dealloc /= "NULL" THEN o.dealloc
                             ELSE "close"]]

\* returns [m, ret, flush]: flush = sock_flush(options.uuid) follows
sock_write2_fn(m, o) ==
  LET fd == sock_uuid2fd(o.uuid)
      m0 == IF validate_uuid(m, o.uuid) /= 0 THEN clear_fd(m, fd, FALSE)
            ELSE m
      g == sock_packet_grab(m0)
      m1 == [g.m EXCEPT !.pool.mem[g.packet] = FillPacket(@, o)]
  IN IF ~Ok(m0) THEN [m |-> m0, ret |-> 0, flush |-> FALSE]
     ELSE IF ~m0.fds[fd].open \/ o.offset < 0
     THEN [m |-> RejectWrite(m0, o), ret |-> -1, flush |-> FALSE]
     ELSE IF ~Ok(g.m) THEN [m |-> g.m, ret |-> 0, flush |-> FALSE]
     ELSE PlacePacket(m1, o, g.packet)

\* the bytes the call is to emit: the payload, or the part of the file that
\* lies in [offset, offset + length)
Expected(o, fsize) ==
  IF o.offset < 0 THEN <<>>
  ELSE IF o.is_fd = 0 THEN Bytes(o.id, o.offset + 1, o.offset + o.length)
  ELSE Bytes(o.id, o.offset + 1, Min(o.offset + o.length, fsize))

\* the shapes of a sock_write2 call: its options but the handle, and `short'
\* (the source file ends one byte before offset + length)
Shapes ==
  [length : 1..MaxLen, offset : {-1, 0, 1}, move : {0, 1}, is_fd : {0, 1},
   dealloc : {"NULL", "dealloc"}, urgent : {0, 1}, short : {0, 1}]

\* Spec: one payload of any kind, within a buffer or file of MaxLen bytes
WriteOptions ==
  {s \in Shapes :
     /\ s.urgent = 0
     /\ s.offset + s.length <= MaxLen
     /\ s.offset < 0 => s.length = 1
     /\ s.short = 1 => s.is_fd = 1 /\ s.offset = 0
     /\ s.dealloc /= "NULL" => s.move = 1 \/ s.is_fd = 1}

\* SpecQueue: memory payloads, sent whole, urgent or not
QueueOptions ==
  {s \in Shapes :
     /\ s.is_fd = 0 /\ s.offset = 0 /\ s.short = 0 /\ s.dealloc = "NULL"
     /\ s.move = 1 => s.length = 1}

\* SpecCopy: memory payloads that are copied (move = 0), with or without a
\* dealloc in the options
CopyOptions ==
  {s \in Shapes :
     /\ s.is_fd = 0 /\ s.move = 0 /\ s.offset = 0 /\ s.short = 0
     /\ s.urgent = 0}

SockWrite2(Opts, ids) ==
  /\ fault = "none" /\ pc.at = "idle"
  /\ hist.nid < ids
  /\ \E uuid \in HandleInputs, s \in Opts :
       LET id == hist.nid + 1
           length == s.length
           offset == s.offset
           move == s.move
           is_fd == s.is_fd
           urgent == s.urgent
           o == [uuid |-> uuid, id |-> id, length |-> length,
                 offset |-> offset, move |-> move, is_fd |-> is_fd,
                 dealloc |-> s.dealloc, urgent |-> urgent]
           fsize == IF is_fd = 1 /\ offset >= 0 THEN offset + length - s.short
                    ELSE 0
           l == Call(St, "sock_write2", uuid, id)
           m == [St EXCEPT
                   !.hist.nid = id,
                   !.hist.fsize[id] = fsize,
                   !.hist.calls[id] =
                      [op |-> "sock_write2", fd |-> sock_uuid2fd(uuid),
                       urgent |-> urgent, move |-> move, is_fd |-> is_fd,
                       length |-> length,
                       admitted |-> l.ok /\ offset >= 0,
                       expect |-> Expected(o, fsize), linked |-> FALSE,
                       queue |-> IF l.ok THEN Queue(St, sock_uuid2fd(uuid))
                                 ELSE <<>>,
                       sent |-> IF l.ok THEN fds[sock_uuid2fd(uuid)].sent
                                ELSE 0]]
           w == sock_write2_fn(m, o)
       IN IF w.flush THEN FlushCall(w.m, l, uuid, "sock_write2")
          ELSE Finish(w.m, l, w.ret)

\* ------------------------------------------------------ sock_buffer_*
NoCall ==
  [op |-> "", fd |-> 0, urgent |-> 0, move |-> 0, is_fd |-> 0, length |-> 0,
   admitted |-> FALSE, expect |-> <<>>, linked |-> FALSE, queue |-> <<>>,
   sent |-> 0]

\* sock_buffer_checkout; the caller then writes n bytes into the buffer
SockBufferCheckout(ids) ==
  /\ fault = "none" /\ pc.at = "idle"
  /\ hist.nid < ids
  /\ \E n \in 1..Min(MaxLen, BUFFER_PACKET_SIZE) :
       LET id == hist.nid + 1
           g == sock_packet_grab(St)
           m == [g.m EXCEPT
                   !.pool.mem[g.packet].len = n,
                   !.pool.mem[g.packet].buf =
                      [ZeroBuf EXCEPT !.bytes = Bytes(id, 1, n), !.id = id],
                   !.hist.nid = id,
                   !.hist.out = g.packet]
       IN Finish(IF Ok(g.m) THEN m ELSE g.m,
                 [Call(St, "sock_buffer_checkout", 0, id) EXCEPT !.ok = TRUE], 0)

sock_buffer_free(m, packet) == sock_packet_free(m, packet)

\* sock_buffer_send after its test of the handle: the metadata is reset, the
\* lock taken and the packet linked at the tail.  Returns [m, ret]
BufferLink(m, uuid, packet) ==
  LET fd == sock_uuid2fd(uuid)
      m1 == [m EXCEPT !.pool.mem[packet] =
               [@ EXCEPT !.write_func = "sock_write_buffer",
                         !.free_func = "NULL", !.next = NULL]]
      m2 == lock_fd(m1, fd)
  IN IF ~Ok(m2) THEN [m |-> m2, ret |-> 0]
     ELSE [m |-> unlock_fd(LinkTail(m2, fd, packet), fd), ret |-> 0]

\* returns [m, ret]
sock_buffer_send(m, uuid, packet) ==
  IF validate_uuid(m, uuid) /= 0 \/ ~m.fds[sock_uuid2fd(uuid)].open
  THEN [m |-> sock_buffer_free(m, packet), ret |-> -1]
  ELSE BufferLink(m, uuid, packet)

SockBufferSend ==
  /\ fault = "none" /\ pc.at = "idle"
  /\ hist.out /= NULL
  /\ \E uuid \in HandleInputs :
       LET id == packet_pool.mem[hist.out].buf.id
           l == Call(St, "sock_buffer_send", uuid, id)
           m == [St EXCEPT
                   !.hist.out = NULL,
                   !.hist.calls[id] =
                      [NoCall EXCEPT
                         !.op = "sock_buffer_send",
                         !.fd = sock_uuid2fd(uuid),
                         !.admitted = l.ok,
                         !.expect = packet_pool.mem[hist.out].buf.bytes,
                         !.queue = IF l.ok THEN Queue(St, sock_uuid2fd(uuid))
                                   ELSE <<>>]]
           w == sock_buffer_send(m, uuid, hist.out)
       IN Finish(IF Ok(w.m) /\ w.ret = 0
                 THEN [w.m EXCEPT !.hist.calls[id].linked = TRUE] ELSE w.m,
                 l, w.ret)

SockBufferFree ==
  /\ fault = "none" /\ pc.at = "idle"
  /\ hist.out /= NULL
  /\ Finish(sock_buffer_free([St EXCEPT !.hist.out = NULL], hist.out),
            [Call(St, "sock_buffer_free", 0, 0) EXCEPT !.ok = TRUE], 0)

\* ------------------------------------------- an enqueue and a peer thread
\* sock_write2_fn up to its last validation of the handle, which is made
\* before the lock is taken: the grabbed packet is filled in and not linked
SockWrite2Validate(Opts, ids) ==
  /\ fault = "none" /\ pc.at = "idle"
  /\ hist.nid < ids
  /\ \E uuid \in HandleInputs, s \in Opts :
       LET id == hist.nid + 1
           o == [uuid |-> uuid, id |-> id, length |-> s.length,
                 offset |-> s.offset, move |-> s.move, is_fd |-> s.is_fd,
                 dealloc |-> s.dealloc, urgent |-> s.urgent]
           l == Call(St, "sock_write2", uuid, id)
           m == [St EXCEPT
                   !.hist.nid = id,
                   !.hist.calls[id] =
                      [op |-> "sock_write2", fd |-> sock_uuid2fd(uuid),
                       urgent |-> s.urgent, move |-> s.move, is_fd |-> s.is_fd,
                       length |-> s.length,
                       admitted |-> l.ok /\ s.offset >= 0,
                       expect |-> Expected(o, 0), linked |-> FALSE,
                       queue |-> IF l.ok THEN Queue(St, sock_uuid2fd(uuid))
                                 ELSE <<>>,
                       sent |-> IF l.ok THEN fds[sock_uuid2fd(uuid)].sent
                                ELSE 0]]
           w == sock_write2_fn(m, o)
           g == sock_packet_grab(m)
       IN IF ~w.flush THEN Finish(w.m, l, w.ret)
          ELSE /\ Commit([g.m EXCEPT !.pool.mem[g.packet] = FillPacket(@, o),
                                     !.hist.out = g.packet])
               /\ last' = l
               /\ pc' = [at |-> "place", uuid |-> uuid,
                         caller |-> "sock_write2", count |-> 0]

\* the rest of sock_write2_fn: lock_fd, the test of open, the link, sock_flush
SockWrite2Place ==
  /\ fault = "none" /\ pc.at = "place"
  /\ LET o == [uuid |-> pc.uuid, id |-> last.id,
               urgent |-> hist.calls[last.id].urgent]
         w == LockAndLink([St EXCEPT !.hist.out = NULL], o, hist.out)
     IN IF w.flush THEN FlushCall(w.m, last, pc.uuid, "sock_write2")
        ELSE Finish(w.m, last, w.ret)

\* sock_buffer_send up to its test of the handle, made before the lock is
\* taken
SockBufferSendValidate ==
  /\ fault = "none" /\ pc.at = "idle"
  /\ hist.out /= NULL
  /\ \E uuid \in HandleInputs :
       LET id == packet_pool.mem[hist.out].buf.id
           l == Call(St, "sock_buffer_send", uuid, id)
           m == [St EXCEPT
                   !.hist.calls[id] =
                      [NoCall EXCEPT
                         !.op = "sock_buffer_send",
                         !.fd = sock_uuid2fd(uuid),
                         !.admitted = l.ok,
                         !.expect = packet_pool.mem[hist.out].buf.bytes,
                         !.queue = IF l.ok THEN Queue(St, sock_uuid2fd(uuid))
                                   ELSE <<>>]]
       IN IF ~l.ok
          THEN Finish(sock_buffer_free([m EXCEPT !.hist.out = NULL], hist.out),
                      l, -1)
          ELSE Commit(m) /\ last' = l
               /\ pc' = [at |-> "send", uuid |-> uuid,
                         caller |-> "sock_buffer_send", count |-> 0]

\* the rest of sock_buffer_send
SockBufferSendLink ==
  /\ fault = "none" /\ pc.at = "send"
  /\ LET w == BufferLink([St EXCEPT !.hist.out = NULL], pc.uuid, hist.out)
     IN Finish(IF Ok(w.m) /\ w.ret = 0
               THEN [w.m EXCEPT !.hist.calls[last.id].linked = TRUE] ELSE w.m,
               last, w.ret)

\* another thread calls sock_force_close while the enqueue is between its
\* validation and lock_fd
PeerForceClose ==
  /\ fault = "none" /\ pc.at \in {"place", "send"}
  /\ \E uuid \in HandleInputs : Commit(sock_force_close(St, uuid))
  /\ UNCHANGED <<pc, last>>

\* another thread is given the closed fd again by sock_open (accept, connect)
PeerOpen ==
  /\ fault = "none" /\ pc.at \in {"place", "send"}
  /\ \E fd \in Fds :
       /\ ~fds[fd].open
       /\ fds[fd].counter < RaceGen
       /\ Commit(sock_open(St, fd, FALSE))
  /\ UNCHANGED <<pc, last>>

\* ------------------------------------------------------- specification
Init ==
  /\ capacity = 0
  /\ fds = [i \in TableIdx |-> ZeroFd]
  /\ packet_pool = [next |-> NULL, init |-> FALSE,
                    mem |-> [i \in Packets |-> ZeroPacket]]
  /\ errno = "0"
  /\ fault = "none"
  /\ pc = Idle
  /\ last = [op |-> "", uuid |-> 0, id |-> 0, hook |-> NoHook,
             returned |-> TRUE, ret |-> 0, ok |-> FALSE]
  /\ hist = [nid |-> 0,
             held |-> [f \in Fds |-> NULL],
             cur |-> [f \in Fds |-> NULL],
             clears |-> [f \in Fds |-> 0],
             wire |-> <<>>,
             disposed |-> [i \in Ids |-> <<>>],
             rotated |-> {},
             on_clear |-> [uuid |-> 0, hooks |-> ""],
             calls |-> [i \in Ids |-> NoCall],
             fsize |-> [i \in Ids |-> 0],
             out |-> NULL,
             unlocked |-> {},
             closed |-> NULL,
             reactor |-> <<>>]

\* the API on a connection that carries one payload of any shape, with the
\* default hooks
Next ==
  \/ SockOpen(MaxGen, TRUE)
  \/ SockForceClose
  \/ SockIsValid
  \/ SockHasPending
  \/ SockRead
  \/ SockFlush
  \/ SockClose
  \/ SockWrite2(WriteOptions, MaxIds)
  \/ SockBufferCheckout(MaxIds)
  \/ SockBufferSend
  \/ SockBufferFree
  \/ FlushHooks
  \/ FlushWrite
  \/ FlushWriteFromFd

Spec == Init /\ [][Next]_vars

\* one payload of any shape flushed through hooks set by sock_rw_hook_set
NextHooks ==
  \/ SockOpen(MaxGen, TRUE)
  \/ SockRwHookSet
  \/ SockWrite2(WriteOptions, MaxIds)
  \/ SockFlush
  \/ FlushHooks
  \/ FlushWrite
  \/ FlushWriteFromFd

SpecHooks == Init /\ [][NextHooks]_vars

\* memory payloads queued one after another on a connection
NextQueue ==
  \/ SockOpen(MaxGen, FALSE)
  \/ SockWrite2(QueueOptions, MaxQueued)
  \/ SockBufferCheckout(MaxQueued)
  \/ SockBufferSend
  \/ SockFlush
  \/ FlushHooks
  \/ FlushWrite

SpecQueue == Init /\ [][NextQueue]_vars

\* an fd opened and closed until its counter has wrapped
NextGen ==
  \/ SockOpen(CounterMod, FALSE)
  \/ SockForceClose
  \/ SockIsValid

SpecGen == Init /\ [][NextGen]_vars

\* an enqueue by one thread, in two steps, with the close and reopen of the
\* fd by another thread between them
NextRace ==
  \/ SockOpen(MaxGen, TRUE)
  \/ SockWrite2Validate(QueueOptions, MaxIds)
  \/ SockWrite2Place
  \/ SockBufferCheckout(MaxIds)
  \/ SockBufferSendValidate
  \/ SockBufferSendLink
  \/ PeerForceClose
  \/ PeerOpen
  \/ FlushHooks
  \/ FlushWrite

SpecRace == Init /\ [][NextRace]_vars

\* payloads enqueued by sock_write2 and sock_buffer_send, and flushed by
\* sock_flush_strong
NextStrong ==
  \/ SockOpen(MaxGen, TRUE)
  \/ SockWrite2(WriteOptions, MaxIds)
  \/ SockBufferCheckout(MaxIds)
  \/ SockBufferSend
  \/ SockFlushStrong
  \/ FlushHooks
  \/ FlushWrite
  \/ FlushWriteFromFd

SpecStrong == Init /\ [][NextStrong]_vars

\* copied memory payloads: enqueued, flushed, dropped by a close
NextCopy ==
  \/ SockOpen(MaxGen, TRUE)
  \/ SockWrite2(CopyOptions, MaxIds)
  \/ SockFlush
  \/ SockForceClose
  \/ FlushHooks
  \/ FlushWrite

SpecCopy == Init /\ [][NextCopy]_vars


\* ================================================================ claims
\* the handle the caller holds for fd has seen its record cleared
Cleared(fd) == hist.held[fd] /= NULL /\ hist.clears[fd] > 0

\* C1 as stated: once the record of fd was cleared, a handle returned before
\* the clear fails validate_uuid in every later state, however many clears
\* follow.  (Violated: the counter is a uint8_t.)
C1_StaleForever ==
  \A fd \in Fds : Cleared(fd) => validate_uuid(St, hist.held[fd]) /= 0

\* C1, amended: a handle whose record was cleared n > 0 times since the
\* handle was returned fails validate_uuid if and only if n is not a multiple
\* of 256; after 256 clears the counter is back at the handle's generation
\* and the handle validates again.
C1_StaleUntilWrap ==
  \A fd \in Fds :
     Cleared(fd) =>
       (validate_uuid(St, hist.held[fd]) /= 0
          <=> hist.clears[fd] % CounterMod /= 0)

\* a handle that went through the wrap and fails again
C1_Witness ==
  \E fd \in Fds :
     /\ Cleared(fd) /\ hist.clears[fd] > CounterMod
     /\ validate_uuid(St, hist.held[fd]) /= 0
     /\ last.op = "sock_isvalid" /\ last.uuid = hist.held[fd] /\ last.ret = 0


\* C2: sock_read, sock_write2, sock_flush, sock_buffer_send and
\* sock_rw_hook_set called with a handle that does not validate, or whose
\* record is not open, return -1 (sock_read and sock_write2 with errno EBADF),
\* sock_isvalid and sock_has_pending return false, and no packet is ever
\* linked into the queue by such a call.
C2_BadHandleRejected ==
  /\ (/\ last.op \in {"sock_read", "sock_write2", "sock_flush",
                      "sock_buffer_send", "sock_rw_hook_set"}
      /\ ~last.ok)
       => /\ last.returned /\ last.ret = -1
          /\ last.op \in {"sock_read", "sock_write2"} => errno = "EBADF"
  /\ (last.op \in {"sock_isvalid", "sock_has_pending"} /\ ~last.ok)
       => last.returned /\ last.ret = 0
  /\ \A id \in Ids : hist.calls[id].linked => hist.calls[id].admitted


\* the bytes of payload id that hooks.write accepted, in the order accepted
Emitted(id) ==
  LET w == SelectSeq(hist.wire, LAMBDA e : e.b[1] = id)
  IN [k \in 1..Len(w) |-> w[k].b]

IsPrefix(a, b) == Len(a) <= Len(b) /\ a = SubSeq(b, 1, Len(a))

\* payload id was enqueued from memory by an accepted sock_write2
MemoryEnqueue(id) ==
  /\ hist.calls[id].op = "sock_write2" /\ hist.calls[id].is_fd = 0
  /\ hist.calls[id].linked

\* C3: for a memory enqueue of N bytes (inline or external), whatever the
\* partial writes and transient errors, the bytes hooks.write accepted are at
\* every moment a prefix of the N enqueued bytes, and once the packet has been
\* rotated out of the queue they are exactly the N bytes, in order.
C3_MemoryEmittedExactly ==
  \A id \in Ids :
     MemoryEnqueue(id) =>
       /\ IsPrefix(Emitted(id), hist.calls[id].expect)
       /\ id \in hist.rotated => Emitted(id) = hist.calls[id].expect

\* a payload of MaxLen bytes (external variant) whose flush stopped on a
\* transient error and was completed by a later sock_flush
C3_Witness ==
  \E id \in Ids :
     /\ MemoryEnqueue(id) /\ id \in hist.rotated
     /\ Len(hist.calls[id].expect) = MaxLen
     /\ last.op = "sock_flush" /\ last.returned /\ errno = "EAGAIN"


\* the last call is an accepted sock_write2 (valid open handle, offset >= 0)
\* with the given urgent flag, in a run whose payloads all come from sock_write2
AcceptedWrite(urgent) ==
  /\ last.op = "sock_write2" /\ last.ok
  /\ \A id \in 1..hist.nid : hist.calls[id].op = "sock_write2"
  /\ hist.calls[last.id].admitted /\ hist.calls[last.id].urgent = urgent

\* the call has linked its packet and is about to flush
JustLinked == pc.at = "flush" /\ pc.caller = "sock_write2"

\* the packet that carries payload id
PacketOf(id) == CHOOSE p \in Packets : packet_pool.mem[p].buf.id = id

\* in the bytes passed to hooks.write for fd, no byte of payload q precedes a
\* byte of payload p
EmittedBefore(p, q) ==
  \A i, j \in 1..Len(hist.wire) :
     hist.wire[i].b[1] = q /\ hist.wire[j].b[1] = p => j < i

\* C4: non-urgent enqueues on one fd are emitted in submission order: an
\* accepted non-urgent sock_write2 links its packet behind every packet
\* already queued, and every byte of an earlier non-urgent payload is passed
\* to hooks.write before any byte of a later one.
C4_SubmissionOrder ==
  /\ AcceptedWrite(0) => fault = "none"
  /\ AcceptedWrite(0) /\ JustLinked =>
       Queue(St, hist.calls[last.id].fd) =
         Append(hist.calls[last.id].queue, PacketOf(last.id))
  /\ \A p, q \in Ids :
       (/\ p < q
        /\ hist.calls[p].urgent = 0 /\ hist.calls[q].urgent = 0
        /\ hist.calls[p].fd = hist.calls[q].fd)
         => EmittedBefore(p, q)

\* C5: an accepted urgent sock_write2 links its packet at the queue head when
\* the queue is empty or the head has sent = 0, and right behind the head
\* when the head has sent > 0.
C5_UrgentPlacement ==
  /\ AcceptedWrite(1) => fault = "none"
  /\ AcceptedWrite(1) /\ JustLinked =>
       LET c == hist.calls[last.id]
           p == PacketOf(last.id)
       IN Queue(St, c.fd) =
            IF c.queue = <<>> \/ c.sent = 0 THEN <<p>> \o c.queue
            ELSE <<Head(c.queue), p>> \o Tail(c.queue)


\* the errno values the code treats as transient
Transient == {"EAGAIN", "EINTR", "ENOTCONN"}

\* C6: after sock_close on an open connection, once the queue is empty and
\* sock_flush is not running, the connection has been force-closed: the
\* record is not open.  (The close flag lives in the record and is reset by
\* clear_fd, so a set flag means no clear has happened since sock_close.)
C6_ClosedAfterDrain ==
  \A fd \in Fds :
     (fault = "none" /\ pc.at = "idle" /\ fds[fd].close
        /\ fds[fd].packet = NULL)
       => ~fds[fd].open

\* C7: a step of sock_flush in which hooks.flush, hooks.write or pread fails
\* with an errno that is none of EINTR, EAGAIN, EWOULDBLOCK, ENOTCONN ends the
\* call: sock_flush returns -1, the record is cleared (not open, queue empty,
\* sent = 0, default hooks), its counter is bumped and the flushed handle no
\* longer validates.
C7_FatalFlushForceCloses ==
  [][(pc.at /= "idle" /\ last'.hook.r = -1 /\ last'.hook.e = "EIO")
       => LET fd == sock_uuid2fd(pc.uuid) IN
          /\ fault' = "none"
          /\ last'.returned /\ (last.op = "sock_flush" => last'.ret = -1)
          /\ ~fds'[fd].open /\ fds'[fd].packet = NULL /\ fds'[fd].sent = 0
          /\ fds'[fd].rw_hooks = "sock_default_hooks"
          /\ fds'[fd].counter = (fds[fd].counter + 1) % CounterMod
          /\ fds'[fd].counter /= pc.uuid % CounterMod]_vars

\* C9: sock_read on a valid open handle returns the hook's positive count;
\* returns 0 and leaves the connection open when the hook fails with a
\* transient errno; and when the hook returns 0 or fails with another errno
\* it force-closes the connection and returns -1, with errno ECONNRESET for
\* EOF and the hook's errno otherwise.
C9_ReadOutcome ==
  (last.op = "sock_read" /\ last.ok) =>
     LET fd == sock_uuid2fd(last.uuid)
         alive == validate_uuid(St, last.uuid) = 0 /\ fds[fd].open
         h == last.hook
     IN /\ fault = "none" /\ last.returned
        /\ h.r > 0 => last.ret = h.r /\ alive
        /\ (h.r < 0 /\ h.e \in Transient) => last.ret = 0 /\ alive
        /\ h.r = 0 => last.ret = -1 /\ errno = "ECONNRESET" /\ ~alive
        /\ (h.r < 0 /\ h.e \notin Transient)
             => last.ret = -1 /\ errno = h.e /\ ~alive

\* the sock_write2 call for payload id is over and no queue holds its packet
Over(id) ==
  /\ hist.calls[id].op = "sock_write2"
  /\ ~(last.op = "sock_write2" /\ last.id = id /\ ~last.returned)
  /\ \A fd \in Fds :
       \A k \in 1..Len(Queue(St, fd)) :
          packet_pool.mem[Queue(St, fd)[k]].buf.id /= id

\* C10: for every sock_write2 call with move = 1 or is_fd = 1 the payload's
\* disposer (dealloc, or the default free / close) is never invoked twice, and
\* has been invoked exactly once when the enqueue is over, whether it was
\* rejected, emitted, aborted by a fatal error or dropped by a clear.
C10_DisposedExactlyOnce ==
  \A id \in Ids :
     (hist.calls[id].op = "sock_write2"
        /\ (hist.calls[id].move = 1 \/ hist.calls[id].is_fd = 1))
       => /\ Len(hist.disposed[id]) <= 1
          /\ (fault = "none" /\ Over(id)) => Len(hist.disposed[id]) = 1


\* payload id was accepted and linked into a queue by sock_write2
Enqueued(id) == hist.calls[id].op = "sock_write2" /\ hist.calls[id].linked

\* C8: a step of sock_flush in which hooks.write or hooks.flush fails with
\* EAGAIN (EWOULDBLOCK), ENOTCONN or EINTR leaves the connection open, the
\* handle valid, the queue as it was and passes no byte to hooks.write; the
\* sent cursor moves only by the bytes the file strategy had written and not
\* yet counted; on EAGAIN and ENOTCONN the call ends and sock_flush returns 0.
\* So the bytes delivered are always a prefix of the bytes enqueued, and are
\* exactly those bytes once the packet has been rotated out.
C8_TransientKeepsConnection ==
  /\ [][(/\ pc.at /= "idle"
         /\ last'.hook.fn \in {"write", "flush"}
         /\ last'.hook.r = -1 /\ last'.hook.e \in Transient)
          => LET fd == sock_uuid2fd(pc.uuid) IN
             /\ fault' = "none"
             /\ fds'[fd].open /\ fds'[fd].counter = fds[fd].counter
             /\ capacity' > fd /\ fds'[fd].counter = pc.uuid % CounterMod
             /\ fds'[fd].packet = fds[fd].packet
             /\ \A p \in Packets :
                  packet_pool'.mem[p].next = packet_pool.mem[p].next
             /\ fds'[fd].sent = fds[fd].sent + pc.count
             /\ hist'.wire = hist.wire /\ hist'.rotated = hist.rotated
             /\ last'.hook.e \in {"EAGAIN", "ENOTCONN"} =>
                  /\ pc'.at = "idle" /\ last'.returned
                  /\ last.op = "sock_flush" => last'.ret = 0]_vars
  /\ [](\A id \in Ids :
          Enqueued(id) =>
            /\ IsPrefix(Emitted(id), hist.calls[id].expect)
            /\ id \in hist.rotated => Emitted(id) = hist.calls[id].expect)

\* sock_flush stopped on EAGAIN from hooks.write after part of the head
\* packet was sent, and returned 0 with the connection open
C8_Witness ==
  /\ last.op = "sock_flush" /\ last.returned /\ last.ret = 0
  /\ last.hook = [fn |-> "write", r |-> -1, e |-> "EAGAIN"]
  /\ LET fd == sock_uuid2fd(last.uuid) IN
     /\ validate_uuid(St, last.uuid) = 0 /\ fds[fd].open
     /\ fds[fd].packet /= NULL /\ fds[fd].sent > 0
     /\ fds[fd].rw_hooks = "custom"

\* C11: an enqueue (sock_write2, sock_buffer_send) made with handle h links
\* its packet only into a record whose generation is that of h at the moment
\* of the insertion, also when another thread cleared and reopened the fd
\* between the validation of h and lock_fd
C11_EnqueueChecksGeneration ==
  [][\A id \in Ids :
       (~hist.calls[id].linked /\ hist.calls'[id].linked)
         => fds'[sock_uuid2fd(last'.uuid)].counter = last'.uuid % CounterMod]_vars

\* C12: every write to a record's sent cursor, queue head, hooks pointer or
\* flag bits is made while the lock of that record is held: no function
\* (enqueue, flush, close, hook swap, clear) wrote one without it
C12_WritesHoldTheLock == hist.unlocked = {}

\* the list that starts at packet p, followed for at most n links
RECURSIVE Walk(_, _, _)
Walk(mem, p, n) ==
  IF p = NULL \/ n = 0 THEN <<>>
  ELSE <<p>> \o Walk(mem, mem[p].next, n - 1)

Occurs(s, p) == Cardinality({k \in 1..Len(s) : s[k] = p})

\* the places pool packet p is in: the free list, the queues, a caller's hands
Places(p) ==
  LET n == BUFFER_PACKET_POOL + 1
      free == Walk(packet_pool.mem, packet_pool.next, n)
      queued == [fd \in Fds |-> Walk(packet_pool.mem, fds[fd].packet, n)]
      count[fd \in 0..MaxFd] ==
        IF fd = 0 THEN 0 ELSE count[fd - 1] + Occurs(queued[fd], p)
  IN Occurs(free, p) + count[MaxFd] + (IF hist.out = p THEN 1 ELSE 0)

\* C13: once the pool is in use, every pool packet is in exactly one place at
\* every moment between API calls: on the free list, linked once in one fd
\* queue, or held by the caller that grabbed it
C13_PacketInOnePlace ==
  (packet_pool.init /\ fault = "none" /\ pc.at = "idle")
    => \A p \in Packets : Places(p) = 1

\* C14: a grab that finds no free packet neither fails nor yields a null
\* packet: sock_write2 and sock_buffer_checkout never run into the empty pool
C14_GrabNeverFails == fault /= "null_deref"

\* the head packet of fd's queue
HeadPacket(fd) == packet_pool.mem[fds[fd].packet]

\* C15 as stated: whenever the lock of fd is not held and its queue is not
\* empty, sent is at most the length field of the head packet, whatever the
\* variant of the packet
C15_SentWithinHead ==
  \A fd \in Fds :
    (~fds[fd].lock /\ fds[fd].packet /= NULL) => fds[fd].sent <= HeadPacket(fd).len

\* C15, amended: whenever the lock of fd is not held and its queue is not
\* empty, sent is at most the length of a head packet of a memory variant;
\* the length field of a file-backed head packet counts the bytes still to
\* send, so that sent + length is the length the packet was enqueued with
C15_SentWithinEnqueuedLength ==
  \A fd \in Fds :
    (~fds[fd].lock /\ fds[fd].packet /= NULL)
      => IF HeadPacket(fd).write_func = "sock_write_from_fd"
         THEN fds[fd].sent + HeadPacket(fd).len = hist.calls[HeadPacket(fd).buf.id].length
         ELSE fds[fd].sent <= HeadPacket(fd).len

\* a file-backed head packet of which more was sent than is left to send,
\* with the lock released
C15_Witness ==
  \E fd \in Fds :
    /\ fault = "none" /\ pc.at = "idle"
    /\ ~fds[fd].lock /\ fds[fd].packet /= NULL
    /\ HeadPacket(fd).write_func = "sock_write_from_fd"
    /\ fds[fd].sent > HeadPacket(fd).len

\* payload id was enqueued as a file by an accepted sock_write2
FileEnqueue(id) ==
  /\ hist.calls[id].op = "sock_write2" /\ hist.calls[id].is_fd = 1
  /\ hist.calls[id].linked

\* C16: a file-backed packet with offset o and length L hands to hooks.write,
\* whatever the partial writes and transient errors, a prefix of the source
\* bytes [o, o + min(L, bytes available from o)) in order (each chunk is read
\* at offset + sent), and exactly those bytes once it has been rotated out;
\* a pread that meets the end of the file before L bytes were sent rotates
\* the packet out of the queue and is no error: the connection stays open.
C16_FileEmittedExactly ==
  /\ [](\A id \in Ids :
          FileEnqueue(id) =>
            /\ IsPrefix(Emitted(id), hist.calls[id].expect)
            /\ id \in hist.rotated => Emitted(id) = hist.calls[id].expect)
  /\ [][(/\ pc.at \in {"write", "fd_loop"}
         /\ fds[sock_uuid2fd(pc.uuid)].packet /= NULL
         /\ HeadPacket(sock_uuid2fd(pc.uuid)).write_func = "sock_write_from_fd"
         /\ last'.hook = [fn |-> "pread", r |-> 0, e |-> "0"])
          => LET fd == sock_uuid2fd(pc.uuid) IN
             /\ fault' = "none"
             /\ HeadPacket(fd).buf.id \in hist'.rotated
             /\ fds'[fd].packet = HeadPacket(fd).next
             /\ fds'[fd].open /\ fds'[fd].counter = fds[fd].counter
             /\ pc'.at = "write"]_vars

\* a file that ends before offset + length: the packet was sent in more than
\* one sock_flush and rotated out at the end of the file, the connection open
C16_Witness ==
  \E id \in Ids :
     /\ FileEnqueue(id) /\ id \in hist.rotated
     /\ Len(hist.calls[id].expect) > 0
     /\ Len(hist.calls[id].expect) < hist.calls[id].length
     /\ Emitted(id) = hist.calls[id].expect
     /\ last.op = "sock_flush" /\ last.returned
     /\ fds[hist.calls[id].fd].open

\* C17: every byte a connection's write strategies hand to hooks.write is
\* handed over with the connection's uuid, (fd << 8) | generation, as the
\* first argument, never with the raw fd
C17_HooksGetUuid ==
  \A k \in 1..Len(hist.wire) :
    /\ hist.wire[k].arg /= hist.wire[k].fd
    /\ sock_uuid2fd(hist.wire[k].arg) = hist.wire[k].fd

\* C18: whenever a record that was open is cleared (sock_force_close, a fatal
\* error in sock_read or sock_flush, sock_open on an fd in use),
\* reactor_on_close is called exactly once with the uuid the connection had:
\* it was, for the open connection that was cleared last
C18_ReactorOnClose ==
  hist.closed /= NULL => Occurs(hist.reactor, hist.closed) = 1

\* C19: sock_flush_strong(uuid) returns, and only when nothing remains to
\* send for uuid: when the call is over it has returned, and at that moment
\* the queue of uuid is empty or uuid is no valid open connection; while the
\* call is inside sock_flush the connection is valid and open, so that it
\* goes on only as long as there is a queue to send
C19_FlushStrongDrains ==
  LET fd == sock_uuid2fd(last.uuid)
      live == validate_uuid(St, last.uuid) = 0 /\ fds[fd].open
  IN last.op = "sock_flush_strong" =>
       /\ pc.at = "idle" => last.returned /\ (~live \/ fds[fd].packet = NULL)
       /\ pc.at = "flush" => live /\ fds[fd].packet /= NULL

\* C20: sock_buffer_send on a valid open handle has, when it returns, linked
\* the checked-out packet at the tail of the connection's queue, run
\* sock_flush on it (which calls hooks.flush first, the queue being non-empty)
\* and returns 0; on an invalid or not-open handle it has put the packet back
\* on the pool's free list and returns -1
C20_BufferSendFlushes ==
  (last.op = "sock_buffer_send" /\ pc.at = "idle")
    => LET fd == sock_uuid2fd(last.uuid) IN
       IF last.ok
       THEN /\ last.returned /\ last.ret = 0
            /\ hist.calls[last.id].linked
            /\ last.hook.fn /= ""
       ELSE /\ last.returned /\ last.ret = -1
            /\ packet_pool.next /= NULL
            /\ packet_pool.mem[packet_pool.next].buf.id = last.id

\* C21: a step in which clear_fd(fd, is_open) ran (the generation of fd
\* changed) leaves the record with generation = (old generation + 1) mod 256,
\* open = is_open (set by sock_open only), close = err = false, sent = 0, an
\* empty queue and the default hooks; every packet of the old queue is back
\* on the free list, once, and the old hooks' on_clear was the last on_clear
\* called, with the old uuid
C21_ClearPostcondition ==
  [][\A fd \in Fds :
       fds'[fd].counter /= fds[fd].counter =>
         LET old == Walk(packet_pool.mem, fds[fd].packet, BUFFER_PACKET_POOL + 1)
             free == Walk(packet_pool'.mem, packet_pool'.next,
                          BUFFER_PACKET_POOL + 1)
         IN /\ fds'[fd].counter = (fds[fd].counter + 1) % CounterMod
            /\ fds'[fd].open = (last'.op = "sock_open")
            /\ ~fds'[fd].close /\ ~fds'[fd].err /\ fds'[fd].sent = 0
            /\ fds'[fd].packet = NULL
            /\ fds'[fd].rw_hooks = "sock_default_hooks"
            /\ \A k \in 1..Len(old) : Occurs(free, old[k]) = 1
            /\ fds[fd].rw_hooks /= "NULL" =>
                 hist'.on_clear = [uuid |-> fd * 256 + fds[fd].counter,
                                   hooks |-> fds[fd].rw_hooks]]_vars

\* the packets on the pool's free list, and those queued or in a caller's hands
FreePackets ==
  {p \in Packets :
     Occurs(Walk(packet_pool.mem, packet_pool.next, BUFFER_PACKET_POOL + 1), p) > 0}

Outstanding ==
  {p \in Packets :
     \/ hist.out = p
     \/ \E fd \in Fds :
          Occurs(Walk(packet_pool.mem, fds[fd].packet, BUFFER_PACKET_POOL + 1),
                 p) > 0}

\* C22: once the pool was used, BUFFER_PACKET_POOL packets can be outstanding
\* at a time: the free list holds every entry that is not outstanding (after
\* the first grab entries 1..BUFFER_PACKET_POOL-1), so that the grabs which
\* follow succeed without a free between them
C22_PoolCapacity ==
  (packet_pool.init /\ fault = "none")
    => Cardinality(FreePackets) = BUFFER_PACKET_POOL - Cardinality(Outstanding)

\* C23: for a memory enqueue with move = 0 the caller's buffer is only
\* copied: nothing but the intermediate heap copy is ever released, and that
\* with free, never with the dealloc of the options; the copy exists when
\* length > BUFFER_PACKET_SIZE and has been released exactly once when the
\* enqueue is over
C23_CopyReleasedWithFree ==
  \A id \in Ids :
     (hist.calls[id].op = "sock_write2" /\ hist.calls[id].is_fd = 0
        /\ hist.calls[id].move = 0)
       => /\ \A k \in 1..Len(hist.disposed[id]) :
               hist.disposed[id][k] = <<"free", "copy">>
          /\ Len(hist.disposed[id]) <= 1
          /\ hist.calls[id].length <= BUFFER_PACKET_SIZE
               => Len(hist.disposed[id]) = 0
          /\ (fault = "none" /\ Over(id) /\ hist.calls[id].linked
                /\ hist.calls[id].length > BUFFER_PACKET_SIZE)
               => Len(hist.disposed[id]) = 1

\* what sock_flush does with the value ret of a write strategy and the errno
\* it finds: go on with the queue, retry from the flush hook, finish (return
\* 0) or force-close (return -1)
FlushOutcome(ret, e) ==
  IF ret > 0 THEN "drain"
  ELSE IF ret /= -1 THEN "finish"
  ELSE IF e = "EINTR" THEN "retry"
  ELSE IF e \in {"EAGAIN", "ENOTCONN"} THEN "finish"
  ELSE "error"

\* C24: the inline-memory and the external-memory write strategy are
\* observationally identical: wherever sock_flush is about to write a memory
\* packet, for every result of hooks.write (a positive count, 0, or -1 with
\* any errno) the two strategies make the same changes to the records and to
\* the bytes passed on, and lead sock_flush to the same outcome
C24_StrategiesAgree ==
  LET fd == sock_uuid2fd(pc.uuid)
      packet == fds[fd].packet
  IN (/\ fault = "none" /\ pc.at = "write" /\ packet /= NULL
      /\ packet_pool.mem[packet].write_func
            \in {"sock_write_buffer", "sock_write_buffer_ext"})
     => \A res \in IoResults(packet_pool.mem[packet].len - fds[fd].sent) :
          LET a == sock_write_buffer(St, fd, packet, res)
              b == sock_write_buffer_ext(St, fd, packet, res)
          IN /\ a.m.fds = b.m.fds
             /\ a.m.hist.wire = b.m.hist.wire
             /\ FlushOutcome(a.ret, a.m.errno) = FlushOutcome(b.ret, b.m.errno)

\* C25: a sock_write2 call whose handle does not validate leaves the record
\* now bound to that fd as it was: open flag, generation, queue, sent cursor
\* and hooks are unchanged by the call
C25_StaleWriteLeavesRecord ==
  [][(/\ pc.at = "idle" /\ last'.op = "sock_write2"
      /\ hist'.nid = hist.nid + 1
      /\ validate_uuid(St, last'.uuid) /= 0)
       => LET fd == sock_uuid2fd(last'.uuid) IN
          /\ fds'[fd].open = fds[fd].open
          /\ fds'[fd].counter = fds[fd].counter
          /\ fds'[fd].packet = fds[fd].packet
          /\ fds'[fd].sent = fds[fd].sent
          /\ fds'[fd].rw_hooks = fds[fd].rw_hooks]_vars

\* C26: every packet linked into an fd queue, by sock_write2 or by
\* sock_buffer_send, has a write strategy and a release function that are not
\* null, and no rotation or clear has called through a null function pointer
C26_NoNullFunction ==
  /\ fault /= "null_call"
  /\ \A fd \in Fds :
       LET q == Walk(packet_pool.mem, fds[fd].packet, BUFFER_PACKET_POOL + 1)
       IN \A k \in 1..Len(q) :
            /\ packet_pool.mem[q[k]].write_func /= "NULL"
            /\ packet_pool.mem[q[k]].free_func /= "NULL"

\* C27: every API operation releases the lock it acquired, on the same
\* record: between calls no record's lock is held, and no call (a second
\* sock_rw_hook_set among them) hangs on a lock that an earlier call left
\* behind
C27_LocksReleased ==
  /\ fault /= "spin"
  /\ (fault = "none" /\ pc.at = "idle") => \A i \in TableIdx : ~fds[i].lock

====
